---- MODULE Spec2Model ----
(***************************************************************************)
(* fdmerge: merge several source trees into one target tree, deduplicating *)
(* by content digest.  Model of src/fdmerge.py (merge_sources, calc_hash,  *)
(* run_fast_scandir, main).                                                *)
(*                                                                         *)
(* Paths are sequences of name components; an absolute path starts with    *)
(* the component Slash.  A name component is a record [stem, sfx, ext]     *)
(* standing for the string  stem ++ ("__COPY" ++ f : f in sfx) ++ ext,     *)
(* where every element of sfx is one 4-letter string.  File contents are   *)
(* identified with their SHA-256 digest (no digest collisions).            *)
(***************************************************************************)
EXTENDS Integers, Sequences, FiniteSets, TLC

\* ---------------------------------------------------------------- bounds
MaxDigest == 2
MaxFix == 2

\* ------------------------------------------------------ program constants
MaxAttempts == 6

Digests == 1..MaxDigest
Fixes == 1..MaxFix
\* digest of a file whose bytes were damaged while copying
BadDigest == MaxDigest + 1

\* ------------------------------------------------------------------ names
Name(stem, sfx, ext) == [stem |-> stem, sfx |-> sfx, ext |-> ext]
Slash == Name("/", <<>>, "")
DotDot == Name("..", <<>>, "")
Note == Name("note", <<>>, ".txt")
NoteCopy == Name("note", <<1>>, ".txt")
RootA == <<Slash, Name("A", <<>>, "")>>
RootB == <<Slash, Name("B", <<>>, "")>>
RootT == <<Slash, Name("T", <<>>, "")>>

\* ------------------------------------------------------------ os.path
IsAbs(p) == Len(p) > 0 /\ p[1] = Slash

IsPrefix(a, b) == Len(a) <= Len(b) /\ SubSeq(b, 1, Len(a)) = a

Parent(p) == SubSeq(p, 1, Len(p) - 1)

BaseName(p) == p[Len(p)]

\* os.path.join(a, b): an absolute second argument replaces the first
Join(a, b) == IF IsAbs(b) THEN b ELSE a \o b

\* os.path.normpath: collapses "x/.." pairs (never above the root)
RECURSIVE NormPath(_)
NormPath(p) ==
    IF \E k \in 2..Len(p) : p[k] = DotDot
    THEN LET k == CHOOSE n \in 2..Len(p) :
                      p[n] = DotDot /\ \A m \in 2..(n - 1) : p[m] # DotDot
         IN  IF k = 2 /\ p[1] = Slash
             THEN NormPath(<<Slash>> \o SubSeq(p, 3, Len(p)))
             ELSE NormPath(SubSeq(p, 1, k - 2) \o SubSeq(p, k + 1, Len(p)))
    ELSE p

\* length of the longest common prefix of two paths
RECURSIVE CommonLen(_, _)
CommonLen(a, b) ==
    IF a = <<>> \/ b = <<>> \/ Head(a) # Head(b) THEN 0
    ELSE 1 + CommonLen(Tail(a), Tail(b))

\* os.path.relpath(p, start=start) for absolute, normalised arguments
RelPath(p, start) ==
    LET c == CommonLen(p, start)
    IN  [k \in 1..(Len(start) - c) |-> DotDot] \o SubSeq(p, c + 1, Len(p))

\* os.path.splitext(p): <<p without the extension, extension>>
SplitExt(p) ==
    <<[p EXCEPT ![Len(p)].ext = ""], p[Len(p)].ext>>

\* os.path.split(p): <<directory, file name>>
Split(p) == <<Parent(p), <<BaseName(p)>>>>

\* line 275 joining the new name without the extension y
RenamedPath_NoExt(target_directory, target_file, fix) ==
    LET x == SplitExt(target_file)[1]
        n == BaseName(x)
    IN  Join(target_directory,
             [x EXCEPT ![Len(x)] = Name(n.stem, Append(n.sfx, fix), "")])

\* ''.join([x, '__COPY', fix, y]) joined onto target_directory (line 275)
RenamedPath(target_directory, target_file, fix) ==
    LET x == SplitExt(target_file)[1]
        y == SplitExt(target_file)[2]
        n == BaseName(x)
    IN  Join(target_directory,
             [x EXCEPT ![Len(x)] = Name(n.stem, Append(n.sfx, fix), y)])

\* -------------------------------------------------------- filesystem
IsFile(fl, p) == p \in DOMAIN fl

IsDir(ds, p) == p \in ds

\* all proper ancestors of p below the root component, and p itself
Chain(p) == { SubSeq(p, 1, k) : k \in 2..Len(p) }

\* os.makedirs(p, exist_ok=False) succeeds iff no component is a file and
\* p itself does not exist
MakeDirsOk(fl, ds, p) ==
    /\ p \notin ds
    /\ \A q \in Chain(p) : q \notin DOMAIN fl

\* all enumerations of a finite set
Perms(S) ==
    { q \in [1..Cardinality(S) -> S] :
        \A a, b \in 1..Cardinality(S) : a # b => q[a] # q[b] }

\* os.scandir(dir): the entries of dir, in any order
ScanDir(fl, ds, dir) ==
    Perms({ p \in (DOMAIN fl) \cup ds : Len(p) = Len(dir) + 1 /\ Parent(p) = dir })

\* str.lower() on the extensions that occur in the model
Lower(e) == CASE e = ".TXT" -> ".txt"
              [] e = ".TMP" -> ".tmp"
              [] OTHER -> e

InSeq(x, q) == \E k \in 1..Len(q) : q[k] = x

\* run_fast_scandir(dir, ext): every file list the recursive scan can return
RECURSIVE run_fast_scandir(_, _, _, _)
RECURSIVE ScanSubfolders(_, _, _, _)
ScanSubfolders(fl, ds, subs, ext) ==
    IF subs = <<>> THEN { <<>> }
    ELSE { a \o b : a \in run_fast_scandir(fl, ds, Head(subs), ext),
                    b \in ScanSubfolders(fl, ds, Tail(subs), ext) }

run_fast_scandir(fl, ds, dir, ext) ==
    UNION { LET fs == SelectSeq(en, LAMBDA p : IsFile(fl, p)
                                    /\ ~InSeq(Lower(BaseName(p).ext), ext))
                subfolders == SelectSeq(en, LAMBDA p : IsDir(ds, p))
            IN  { fs \o r : r \in ScanSubfolders(fl, ds, subfolders, ext) }
          : en \in ScanDir(fl, ds, dir) }

HashError == MaxDigest + 2

\* calc_hash returning the initial filehash_value for a missing file
calc_hash_NoRaise(fl, file) == IF IsFile(fl, file) THEN fl[file] ELSE BadDigest

\* calc_hash(file): the digest, or a raised exception when the file is gone
calc_hash(fl, file) == IF IsFile(fl, file) THEN fl[file] ELSE HashError

\* -------------------------------------------------- insertion-ordered dict
\* A Python dict is a sequence of [hash, value] entries in insertion order.
Keys(m) == { m[k].hash : k \in 1..Len(m) }

Get(m, h) == m[CHOOSE k \in 1..Len(m) : m[k].hash = h].value

\* m[h] = v : replaces the value in place, or appends a new entry
Put(m, h, v) ==
    IF h \in Keys(m)
    THEN [k \in 1..Len(m) |-> IF m[k].hash = h THEN [hash |-> h, value |-> v] ELSE m[k]]
    ELSE Append(m, [hash |-> h, value |-> v])

\* d = s  in place of  d.update(s)
Update_Assign(dd, ss) == ss

\* d.update(s)
RECURSIVE Update(_, _)
Update(dd, ss) ==
    IF ss = <<>> THEN dd
    ELSE Update(Put(dd, Head(ss).hash, Head(ss).value), Tail(ss))

\* [file, source_folder_index, do_copy]
Value(file, idx, flag) == [file |-> file, idx |-> idx, flag |-> flag]

\* ------------------------------------------------------------ inputs
RelPathsA == { <<Note>>, <<Note, Note>>, <<NoteCopy>> }
RelPathsB == { <<Note>>, <<Note, Note>> }

\* the source trees over a set of relative paths: no file below another file
Trees(paths) ==
    { t \in UNION { [D -> Digests] : D \in SUBSET paths } :
        \A a, b \in DOMAIN t : a # b => ~IsPrefix(a, b) }

CompareLists == { <<>>, <<RootA>> }
FolderLists == { <<RootA>>, <<RootB>>, <<RootA, RootB>>, <<RootB, RootA>> }
TargetKinds == { "missing", "empty", "mirror", "chain" }

\* k times the first 4-letter string
RECURSIVE Ones(_)
Ones(k) == IF k = 0 THEN <<>> ELSE Append(Ones(k - 1), 1)

\* the files of the target tree before the run
TargetFiles(kind, ta) ==
    CASE kind = "mirror" -> { <<RootT \o r, ta[r]>> : r \in DOMAIN ta }
      [] kind = "chain"  -> { <<RootT \o <<Name("note", Ones(k), ".txt")>>, 1>> :
                                 k \in 0..(MaxAttempts - 1) }
      [] OTHER           -> {}

TreeFiles(root, t) == { <<root \o r, t[r]>> : r \in DOMAIN t }

\* the function with the given set of <<argument, value>> pairs
FunOf(pairs) ==
    [p \in { x[1] : x \in pairs } |-> (CHOOSE x \in pairs : x[1] = p)[2]]

\* the directories that hold the given files
DirsOf(fl) == UNION { Chain(Parent(p)) : p \in DOMAIN fl }

VARIABLES
    args,                 \* parsed command line
    files, dirs,          \* the filesystem: file path -> digest, directories
    statefiles,           \* the fdmerge_state.pkl files: folder -> pickled map
    pc,                   \* position in merge_sources / main
    source_folder_index,  \* loop variable of the two folder loops
    filelist,             \* files: result of run_fast_scandir
    jf,                   \* position of the hashing loop in filelist
    s, d,                 \* folder-local and global digest maps
    collisions, copies, renames,
    i,                    \* number of entries of d the copy loop has taken
    value, source_hash,   \* current entry of the copy loop
    target_directory, target_file, j,   \* name resolution loop
    outcome,              \* how merge_sources ended
    exit_status,          \* process exit status
    seen,                 \* history: every file hashed, in processing order
    writes,               \* history: every file written by shutil.copy2
    checks,               \* history: every os.path.isfile test of line 270
    fs0,                  \* history: the filesystem before the run
    phase                 \* history: "scan" until the copy loop is entered

vars == <<args, files, dirs, pc, source_folder_index, filelist, jf, s, d,
          collisions, copies, renames, i, value, source_hash, target_directory,
          target_file, j,
          outcome, exit_status, seen, writes, fs0, phase, statefiles, checks>>

NoValue == Value(<<>>, 0, 0)

\* the state in which merge_sources is entered
Start(a, fl, ds, sf) ==
    /\ args = a
    /\ files = fl
    /\ dirs = ds
    /\ statefiles = sf
    /\ fs0 = [files |-> fl, dirs |-> ds]
    /\ pc = "start"
    /\ source_folder_index = 0
    /\ filelist = <<>>
    /\ jf = 1
    /\ s = <<>>
    /\ d = <<>>
    /\ collisions = <<>>
    /\ copies = <<>>
    /\ renames = <<>>
    /\ i = 0
    /\ value = NoValue
    /\ source_hash = 0
    /\ target_directory = <<>>
    /\ target_file = <<>>
    /\ j = 0
    /\ outcome = [kind |-> "running", code |-> 0]
    /\ exit_status = -1
    /\ seen = <<>>
    /\ writes = <<>>
    /\ checks = <<>>
    /\ phase = "scan"

Init ==
    \E ta \in Trees(RelPathsA), tb \in Trees(RelPathsB), kind \in TargetKinds,
       co \in CompareLists, fo \in FolderLists, dry \in BOOLEAN :
      LET src == FunOf(TreeFiles(RootA, ta) \cup TreeFiles(RootB, tb))
          tgt == FunOf(TargetFiles(kind, ta))
          fl  == src @@ tgt
          ds  == {RootA, RootB} \cup DirsOf(fl)
                   \cup (IF kind = "missing" THEN {} ELSE {RootT})
      IN  Start([target |-> RootT, folders |-> fo, compare_only |-> co,
                 dry_run |-> dry, exclude_extensions |-> <<>>,
                 load_hashes |-> FALSE, store_hashes |-> FALSE],
                fl, ds, <<>>)

\* ------------------------------------------------------------ outcomes
Running == [kind |-> "running", code |-> 0]
Return == [kind |-> "return", code |-> 0]
Exception == [kind |-> "Exception", code |-> 0]
SystemExit(n) == [kind |-> "SystemExit", code |-> n]

scanVars == <<source_folder_index, filelist, jf, s, d, collisions, seen>>
copyVars == <<copies, renames, i, value, source_hash, target_directory,
              target_file, j, writes, checks>>
envVars == <<args, fs0, phase>>

\* os.path.realpath(args.target, strict=False), no symbolic links
normalized_target == NormPath(args.target)

\* lines 119-123: the target folder must exist
CheckTarget ==
    /\ pc = "start"
    /\ IF ~IsDir(dirs, normalized_target)
       THEN /\ outcome' = SystemExit(1)
            /\ pc' = "ended"
       ELSE /\ outcome' = outcome
            /\ pc' = "co_loop"
    /\ UNCHANGED <<files, dirs, exit_status, scanVars, copyVars, envVars, statefiles>>

\* the test of line 162/224 without its first half
IsNewContent_LocalOnly(dd, ss, h) == h \notin Keys(ss)

\* lines 162/224: the content was seen neither globally nor in this folder
IsNewContent(dd, ss, h) == h \notin Keys(dd) /\ h \notin Keys(ss)

\* lines 164-171 with the first-collision branch taken every time
AddCollision_Reset(coll, h, cvalue) == (h :> <<cvalue>>) @@ coll

\* lines 164-171 / 226-233: record one more duplicate of the content h
AddCollision(coll, h, cvalue) ==
    IF h \in DOMAIN coll
    THEN [coll EXCEPT ![h] = Append(@, cvalue)]
    ELSE (h :> <<cvalue>>) @@ coll

\* lines 135-137 / 198-200: hashes are to be loaded and the folder has a
\* state file
LoadsState(source_folder) ==
    args.load_hashes /\ source_folder \in DOMAIN statefiles

\* lines 128-152 / 191-215: start the pass over one source folder
ScanStep(folderlist, hash_pc) ==
    LET source_folder == folderlist[source_folder_index + 1]
    IN  /\ source_folder_index < Len(folderlist)
        /\ ~LoadsState(source_folder)
        /\ IF ~IsDir(dirs, source_folder)
           THEN /\ outcome' = Exception
                /\ pc' = "ended"
                /\ UNCHANGED <<filelist, s, jf>>
           ELSE /\ \E fl \in run_fast_scandir(files, dirs, source_folder,
                                              args.exclude_extensions) :
                      filelist' = fl
                /\ s' = <<>>
                /\ jf' = 1
                /\ pc' = hash_pc
                /\ outcome' = outcome
        /\ UNCHANGED <<files, dirs, exit_status, source_folder_index, d,
                       collisions, seen, copyVars, envVars, statefiles>>

\* lines 156-171 / 218-233: hash the next file and file it under its digest
HashStep(flag) ==
    LET file == filelist[jf]
        file_hash == calc_hash(files, file)
        cvalue == Value(file, source_folder_index, flag)
    IN  /\ jf <= Len(filelist)
        /\ seen' = Append(seen, [file |-> file, idx |-> source_folder_index,
                                 flag |-> flag, present |-> IsFile(files, file),
                                 hash |-> IF IsFile(files, file)
                                          THEN files[file] ELSE 0])
        /\ IF file_hash = HashError
           THEN /\ outcome' = Exception
                /\ pc' = "ended"
                /\ UNCHANGED <<s, collisions, jf>>
           ELSE /\ IF IsNewContent(d, s, file_hash)
                   THEN /\ s' = Put(s, file_hash, cvalue)
                        /\ collisions' = collisions
                   ELSE /\ collisions' = AddCollision(collisions, file_hash, cvalue)
                        /\ s' = s
                /\ jf' = jf + 1
                /\ UNCHANGED <<outcome, pc>>
        /\ UNCHANGED <<files, dirs, exit_status, source_folder_index, filelist,
                       d, copyVars, envVars, statefiles>>

\* lines 176-178 / 237-239: pickle.dump(s, statefile) under --store-hashes
StoreState(sf, source_folder, m) ==
    IF args.store_hashes THEN (source_folder :> m) @@ sf ELSE sf

\* lines 176-180 / 237-241: store and merge the folder-local map
MergeStep(folderlist, loop_pc) ==
    /\ jf > Len(filelist)
    /\ statefiles' = StoreState(statefiles, folderlist[source_folder_index + 1], s)
    /\ d' = Update(d, s)
    /\ source_folder_index' = source_folder_index + 1
    /\ pc' = loop_pc
    /\ UNCHANGED <<files, dirs, exit_status, outcome, filelist, jf, s,
                   collisions, seen, copyVars, envVars>>

\* lines 139-142: a loaded compare-only map takes this folder's index and
\* is never copied
LoadedCompareOnly(m, idx) ==
    [k \in 1..Len(m) |->
        [hash |-> m[k].hash, value |-> Value(m[k].value.file, idx, 0)]]

\* lines 202-204: a loaded copy-eligible map is marked for copying, its
\* folder indices stay as they were stored
LoadedFolder(m) ==
    [k \in 1..Len(m) |->
        [hash |-> m[k].hash, value |-> Value(m[k].value.file, m[k].value.idx, 1)]]

\* lines 137-142, 176-180 / 200-204, 237-241: the pass over a folder whose
\* hashes are loaded: load, store again, merge
LoadStep(folderlist, loaded, loop_pc) ==
    /\ s' = loaded
    /\ filelist' = <<>>
    /\ statefiles' = StoreState(statefiles, folderlist[source_folder_index + 1], loaded)
    /\ d' = Update(d, loaded)
    /\ source_folder_index' = source_folder_index + 1
    /\ pc' = loop_pc
    /\ UNCHANGED <<files, dirs, exit_status, outcome, jf, collisions, seen,
                   copyVars, envVars>>

LoadCompareOnly ==
    /\ pc = "co_loop"
    /\ source_folder_index < Len(args.compare_only)
    /\ LoadsState(args.compare_only[source_folder_index + 1])
    /\ LoadStep(args.compare_only,
                LoadedCompareOnly(statefiles[args.compare_only[source_folder_index + 1]],
                                  source_folder_index),
                "co_loop")

LoadFolder ==
    /\ pc = "fo_loop"
    /\ source_folder_index < Len(args.folders)
    /\ LoadsState(args.folders[source_folder_index + 1])
    /\ LoadStep(args.folders,
                LoadedFolder(statefiles[args.folders[source_folder_index + 1]]),
                "fo_loop")

ScanCompareOnly == pc = "co_loop" /\ ScanStep(args.compare_only, "co_hash")

HashCompareOnly == pc = "co_hash" /\ HashStep(0)

MergeCompareOnly == pc = "co_hash" /\ MergeStep(args.compare_only, "co_loop")

\* line 127/128: the compare-only loop is over (or there is no such folder)
EndCompareOnly ==
    /\ pc = "co_loop"
    /\ source_folder_index >= Len(args.compare_only)
    /\ pc' = "fo_loop"
    /\ source_folder_index' = 0
    /\ UNCHANGED <<files, dirs, exit_status, outcome, filelist, jf, s, d,
                   collisions, seen, copyVars, envVars, statefiles>>

ScanFolder == pc = "fo_loop" /\ ScanStep(args.folders, "fo_hash")

HashFolder == pc = "fo_hash" /\ HashStep(1)

MergeFolder == pc = "fo_hash" /\ MergeStep(args.folders, "fo_loop")

\* lines 190/191, 247-249: the copy-eligible loop is over, copying begins
EndFolders ==
    /\ pc = "fo_loop"
    /\ source_folder_index >= Len(args.folders)
    /\ pc' = "copy_loop"
    /\ i' = 0
    /\ phase' = "copy"
    /\ UNCHANGED <<files, dirs, exit_status, outcome, scanVars, copies, renames,
                   value, source_hash, target_directory, target_file, j, writes,
                   checks, args, fs0, statefiles>>

\* The environment: an enumerated source file disappears before it is
\* hashed.  The program looks at the file only when it hashes it, so the
\* removal is taken at the last moment, just before line 157/219.
DeleteSourceFile ==
    /\ pc \in {"co_hash", "fo_hash"}
    /\ jf <= Len(filelist)
    /\ IsFile(files, filelist[jf])
    /\ files' = [p \in (DOMAIN files) \ {filelist[jf]} |-> files[p]]
    /\ UNCHANGED <<dirs, pc, exit_status, outcome, scanVars, copyVars, envVars, statefiles>>

\* ---------------------------------------------------------- copy phase
\* lines 257-259: the target path of a canonical record
InitialTarget(v) ==
    LET source_file == NormPath(v.file)
        source_relpath == RelPath(source_file, NormPath(args.folders[v.idx + 1]))
    IN  NormPath(Join(normalized_target, source_relpath))

\* lines 250-255: a record that is not copy-eligible is passed over
SkipRecord ==
    /\ pc = "copy_loop"
    /\ i < Len(d)
    /\ d[i + 1].value.flag = 0
    /\ i' = i + 1
    /\ UNCHANGED <<files, dirs, pc, exit_status, outcome, scanVars, copies,
                   renames, value, source_hash, target_directory, target_file,
                   j, writes, checks, envVars, statefiles>>

\* lines 250-267: take the next copy-eligible record, derive its target path
\* and create the target directory chain
PlanRecord ==
    /\ pc = "copy_loop"
    /\ i < Len(d)
    /\ d[i + 1].value.flag # 0
    /\ i' = i + 1
    /\ value' = d[i + 1].value
    /\ source_hash' = d[i + 1].hash
    /\ j' = 0
    /\ IF d[i + 1].value.idx + 1 > Len(args.folders)
       THEN /\ outcome' = Exception
            /\ pc' = "ended"
            /\ UNCHANGED <<dirs, target_directory, target_file>>
       ELSE LET tf == InitialTarget(d[i + 1].value)
                td == Split(tf)[1]
            IN  /\ target_file' = tf
                /\ target_directory' = td
                /\ IF IsDir(dirs, td)
                   THEN UNCHANGED <<dirs, outcome>> /\ pc' = "resolve"
                   ELSE IF MakeDirsOk(files, dirs, td)
                        THEN /\ dirs' = dirs \cup Chain(td)
                             /\ pc' = "resolve"
                             /\ outcome' = outcome
                        ELSE /\ outcome' = Exception
                             /\ pc' = "ended"
                             /\ dirs' = dirs
    /\ UNCHANGED <<files, exit_status, scanVars, copies, renames, writes, checks,
                   envVars, statefiles>>

\* line 270 never asking for another name
NeedsRename_Never(fl, tf) == FALSE

\* line 270: the candidate name is taken
NeedsRename(fl, tf) == IsFile(fl, tf)

\* line 281 giving up one turn later
RetriesExhausted_Late(jj) == jj > MaxAttempts

\* line 281: the attempt counter has reached its limit
RetriesExhausted(jj) == jj >= MaxAttempts

\* lines 268-284: one turn of the file name loop
ResolveName ==
    /\ pc = "resolve"
    /\ j' = j + 1
    /\ checks' = Append(checks, [hash |-> source_hash, path |-> target_file,
                                 exists |-> IsFile(files, target_file)])
    /\ IF NeedsRename(files, target_file)
       THEN /\ \E fix \in Fixes :
                  target_file' = RenamedPath(target_directory, target_file, fix)
            /\ renames' = Append(renames, target_file')
            /\ IF RetriesExhausted(j + 1)
               THEN outcome' = SystemExit(2) /\ pc' = "ended"
               ELSE outcome' = outcome /\ pc' = "resolve"
       ELSE /\ pc' = "copy"
            /\ UNCHANGED <<target_file, renames, outcome>>
    /\ UNCHANGED <<files, dirs, exit_status, scanVars, copies, i, value,
                   source_hash, target_directory, writes, envVars, statefiles>>

\* lines 289-292 with continue in place of break
DryRunBreak_Continue ==
    /\ pc = "copy"
    /\ args.dry_run
    /\ pc' = "copy_loop"
    /\ UNCHANGED <<files, dirs, exit_status, outcome, scanVars, copyVars, envVars, statefiles>>

\* lines 289-292: a dry run leaves the copy loop at the first record
DryRunBreak ==
    /\ pc = "copy"
    /\ args.dry_run
    /\ outcome' = Return
    /\ pc' = "ended"
    /\ UNCHANGED <<files, dirs, exit_status, scanVars, copyVars, envVars, statefiles>>

\* shutil.copy2(src, dst): a directory as dst receives the file under the
\* source's base name
CopyDestination(ds, src, dst) ==
    IF IsDir(ds, dst) THEN Join(dst, <<BaseName(src)>>) ELSE dst

\* lines 301-305: is the copy accepted as perfect
CopyVerified(output_file_hash, h) == output_file_hash = h

\* lines 294-305: copy the file, hash the copy, record it or stop
CopyFile ==
    /\ pc = "copy"
    /\ ~args.dry_run
    /\ IF ~IsFile(files, target_file)
       THEN LET source_file == NormPath(value.file)
                dst == CopyDestination(dirs, source_file, target_file)
            IN  IF \/ ~IsFile(files, source_file)
                   \/ IsDir(dirs, dst)
                   \/ ~IsDir(dirs, Parent(dst))
                   \/ dst = source_file
                THEN /\ outcome' = Exception
                     /\ pc' = "ended"
                     /\ UNCHANGED <<files, copies, writes>>
                ELSE \E content \in {files[source_file], BadDigest} :
                       /\ files' = (dst :> content) @@ files
                       /\ writes' = Append(writes,
                              [src |-> source_file, dst |-> dst,
                               content |-> content, hash |-> source_hash,
                               existed |-> IsFile(files, dst)])
                       /\ IF CopyVerified(calc_hash(files', dst), source_hash)
                          THEN /\ copies' = (calc_hash(files', dst) :> target_file) @@ copies
                               /\ pc' = "copy_loop"
                               /\ outcome' = outcome
                          ELSE /\ outcome' = SystemExit(3)
                               /\ pc' = "ended"
                               /\ copies' = copies
       ELSE /\ pc' = "copy_loop"
            /\ UNCHANGED <<files, copies, writes, outcome>>
    /\ UNCHANGED <<dirs, exit_status, scanVars, renames, i, value, source_hash,
                   target_directory, target_file, j, checks, envVars, statefiles>>

\* lines 250, 310-327: every entry of d was taken; summary and return
FinishCopy ==
    /\ pc = "copy_loop"
    /\ i >= Len(d)
    /\ outcome' = Return
    /\ pc' = "ended"
    /\ UNCHANGED <<files, dirs, exit_status, scanVars, copyVars, envVars, statefiles>>

\* a handler that catches BaseException
main_CatchAll(o) == IF o.kind = "return" THEN 0 ELSE 1

\* lines 342-348: main's handler catches Exception, not SystemExit
main(o) ==
    CASE o.kind = "Exception"  -> 1
      [] o.kind = "SystemExit" -> o.code
      [] OTHER                 -> 0

MainExit ==
    /\ pc = "ended"
    /\ exit_status' = main(outcome)
    /\ pc' = "exited"
    /\ UNCHANGED <<files, dirs, outcome, scanVars, copyVars, envVars, statefiles>>

Next ==
    \/ CheckTarget
    \/ ScanCompareOnly
    \/ HashCompareOnly
    \/ MergeCompareOnly
    \/ EndCompareOnly
    \/ ScanFolder
    \/ HashFolder
    \/ MergeFolder
    \/ EndFolders
    \/ DeleteSourceFile
    \/ SkipRecord
    \/ PlanRecord
    \/ ResolveName
    \/ DryRunBreak
    \/ CopyFile
    \/ FinishCopy
    \/ MainExit

Spec == Init /\ [][Next]_vars

TypeOK ==
    /\ pc \in {"start", "co_loop", "co_hash", "fo_loop", "fo_hash", "copy_loop",
               "resolve", "copy", "ended", "exited"}
    /\ exit_status \in {-1, 0, 1, 2, 3}
    /\ j \in 0..MaxAttempts
    /\ Keys(d) \subseteq Digests
    /\ Keys(s) \subseteq Digests

\* ====================================================== properties
\* every folder pass is over and the copy loop has been entered
ScanComplete == phase = "copy"

Finished(n) == pc = "exited" /\ exit_status = n

InTarget(p) == IsPrefix(normalized_target, p)

\* the target folder existed and was empty before the run
TargetEmpty0 ==
    /\ IsDir(fs0.dirs, normalized_target)
    /\ \A p \in (DOMAIN fs0.files) \cup fs0.dirs : InTarget(p) => p = normalized_target

\* the target tree is as it was before the run
TargetUntouched ==
    /\ \A p \in (DOMAIN files) \cup (DOMAIN fs0.files) : InTarget(p) =>
          /\ p \in DOMAIN files
          /\ p \in DOMAIN fs0.files
          /\ files[p] = fs0.files[p]

\* the folders given on the command line, both roles
Declared == { args.compare_only[k] : k \in 1..Len(args.compare_only) }
               \cup { args.folders[k] : k \in 1..Len(args.folders) }

\* digests whose canonical record is copy-eligible
Eligible == { h \in Keys(d) : Get(d, h).flag = 1 }

\* the files hashed so far that had the content h, in processing order
Occurrences(h) == SelectSeq(seen, LAMBDA e : e.present /\ e.hash = h)

TargetFilesWith(h) == { p \in DOMAIN files : InTarget(p) /\ files[p] = h }

\* C1: after a successful run (exit 0), not a dry run, into an empty target,
\* every digest with a copy-eligible canonical record has exactly one file
\* with that content in the target and exactly one entry in the copy record,
\* no file is created for a digest whose canonical record is not
\* copy-eligible, and no digest is copied twice.
C1_ExactlyOneCopy ==
    (Finished(0) /\ ~args.dry_run /\ TargetEmpty0) =>
        /\ \A h \in Eligible : Cardinality(TargetFilesWith(h)) = 1
        /\ DOMAIN copies = Eligible
        /\ \A h \in Keys(d) \ Eligible :
              /\ TargetFilesWith(h) = {}
              /\ \A k \in 1..Len(writes) : writes[k].hash # h
        /\ \A a, b \in 1..Len(writes) : a # b => writes[a].hash # writes[b].hash

\* C2: when all folders were scanned, the keys of the global index are
\* exactly the distinct digests of all files in all declared folders.
C2_IndexKeys ==
    ScanComplete =>
        /\ Keys(d) = { fs0.files[p] : p \in { q \in DOMAIN fs0.files :
                                               \E r \in Declared : IsPrefix(r, q) } }
        /\ Keys(d) = { seen[k].hash : k \in 1..Len(seen) }

C2_Witness ==
    /\ ScanComplete
    /\ Cardinality(Keys(d)) >= 2
    /\ Len(seen) > Cardinality(Keys(d))
    /\ \E k \in 1..Len(seen) : seen[k].flag = 0
    /\ \E k \in 1..Len(seen) : seen[k].flag = 1

\* the content h was found in a compare-only and in a copy-eligible folder
InBothRoles(h) ==
    /\ \E k \in 1..Len(seen) : seen[k].hash = h /\ seen[k].flag = 0
    /\ \E k \in 1..Len(seen) : seen[k].hash = h /\ seen[k].flag = 1

\* C3: content that occurs in a compare-only folder and in a copy-eligible
\* folder has a canonical record that is not copy-eligible, and the copy
\* phase neither copies it nor records a copy for it.
C3_Precedence ==
    ScanComplete =>
        \A h \in Digests : InBothRoles(h) =>
            /\ h \in Keys(d)
            /\ Get(d, h).flag = 0
            /\ h \notin DOMAIN copies
            /\ \A k \in 1..Len(writes) : writes[k].hash # h /\ writes[k].content # h

C3_Witness ==
    /\ Finished(0)
    /\ ~args.dry_run
    /\ writes # <<>>
    /\ \E h \in Digests : InBothRoles(h)

\* C4: when all folders were scanned, a digest that occurred n > 1 times
\* has a collision entry holding the n - 1 later occurrences in discovery
\* order, and a digest that occurred once has no collision entry.
C4_CollisionCount ==
    ScanComplete =>
        \A h \in Digests :
            LET occ == Occurrences(h)
            IN  IF Len(occ) > 1
                THEN /\ h \in DOMAIN collisions
                     /\ collisions[h] =
                          [k \in 1..(Len(occ) - 1) |->
                              Value(occ[k + 1].file, occ[k + 1].idx, occ[k + 1].flag)]
                ELSE h \notin DOMAIN collisions

C4_Witness ==
    /\ ScanComplete
    /\ \E h \in DOMAIN collisions : Len(collisions[h]) >= 3
    /\ \E h \in Keys(d) : h \notin DOMAIN collisions

\* the canonical record of h, in the global or the folder-local map
Canonical(h) == IF h \in Keys(d) THEN Get(d, h) ELSE Get(s, h)

\* C5: the source path of a digest's canonical record never appears as the
\* path of a record in that digest's own collision entry.
C5_CanonicalNotInCollisions ==
    \A h \in DOMAIN collisions :
        (h \in Keys(d) \cup Keys(s)) =>
            \A k \in 1..Len(collisions[h]) : collisions[h][k].file # Canonical(h).file

\* the target held, before the run, a file with the right content at the
\* initial target path of every canonical copy-eligible record
TargetPreloaded ==
    /\ ScanComplete
    /\ \A h \in Eligible :
          /\ IsFile(fs0.files, InitialTarget(Get(d, h)))
          /\ fs0.files[InitialTarget(Get(d, h))] = h

\* C6 as stated: a run against a target that already holds every canonical
\* copy-eligible file under its initial name writes no file, records no
\* copy and records no rename.
C6_RerunCopiesNothing ==
    TargetPreloaded =>
        /\ writes = <<>>
        /\ copies = <<>>
        /\ renames = <<>>

\* C6 amended: such a run skips nothing.  Every copy it records went to a
\* name other than the initial one, and that name is in the rename record;
\* when the run is not a dry run and ends with exit status 0, the copy
\* record has an entry for every copy-eligible digest.
C6_RerunCopiesAgain ==
    (TargetPreloaded /\ ~args.dry_run) =>
        /\ \A h \in DOMAIN copies :
              /\ copies[h] # InitialTarget(Get(d, h))
              /\ InSeq(copies[h], renames)
        /\ Finished(0) => DOMAIN copies = Eligible

C6_Witness ==
    /\ TargetPreloaded
    /\ ~args.dry_run
    /\ Finished(0)
    /\ Cardinality(DOMAIN copies) >= 2
    /\ Len(renames) >= 2

\* C7: a copy is recorded only after the written file's digest was found
\* equal to the source digest; on a mismatch the run ends with status 3,
\* nothing is recorded for that digest and no later record is copied; so
\* in every state each recorded target path holds a file with the digest it
\* is recorded under.
C7_RecordedCopiesVerified ==
    /\ \A h \in DOMAIN copies :
          /\ IsFile(files, copies[h])
          /\ files[copies[h]] = h
    /\ outcome = SystemExit(3) =>
          /\ source_hash \notin DOMAIN copies
          /\ writes[Len(writes)].hash = source_hash
          /\ writes[Len(writes)].content # source_hash

\* C8: in a dry run no file is written, the copy record stays empty, and the
\* copy loop never goes past the first copy-eligible record it reaches.
C8_DryRunWritesNothing ==
    args.dry_run =>
        /\ writes = <<>>
        /\ copies = <<>>
        /\ \A p \in DOMAIN files : InTarget(p) =>
               p \in DOMAIN fs0.files /\ files[p] = fs0.files[p]
        /\ \A k \in 1..(i - 1) : d[k].value.flag = 0
        /\ (ScanComplete /\ pc \in {"ended", "exited"} /\ Eligible # {}) =>
               /\ outcome = Return => d[i].value.flag = 1
               /\ pc = "exited" /\ outcome = Return => exit_status = 0

C8_Witness ==
    /\ args.dry_run
    /\ Finished(0)
    /\ Cardinality(Eligible) >= 2
    /\ i < Len(d)
    /\ d[i].value.flag = 1

\* C9: when an enumerated file is gone at the time it is hashed, the run
\* ends with a non-zero exit status and the target is as it was; no step of
\* the copy phase comes before the end of the last folder pass.
C9_VanishedFileAborts ==
    /\ (\E k \in 1..Len(seen) : ~seen[k].present) =>
          /\ pc \in {"ended", "exited"}
          /\ phase = "scan"
          /\ pc = "exited" => exit_status # 0
    /\ phase = "scan" =>
          /\ writes = <<>>
          /\ copies = <<>>
          /\ renames = <<>>
          /\ TargetUntouched
          /\ dirs = fs0.dirs

C9_Witness ==
    /\ Finished(1)
    /\ Len(seen) >= 2
    /\ ~seen[Len(seen)].present
    /\ d # <<>>

\* C10: the exit status follows the way the run ended: 0 when all phases
\* completed, 1 when the target folder does not exist (nothing scanned) or
\* an error was raised, 2 when the rename retries ran out, 3 on a digest
\* mismatch after a copy; 2 and 3 are not turned into 1.
C10_ExitStatus ==
    pc = "exited" =>
        /\ exit_status \in 0..3
        /\ ~IsDir(fs0.dirs, normalized_target) => exit_status = 1 /\ seen = <<>>
        /\ outcome = Return <=> exit_status = 0
        /\ outcome = SystemExit(2) <=> exit_status = 2
        /\ outcome = SystemExit(3) <=> exit_status = 3
        /\ outcome \in {Exception, SystemExit(1)} <=> exit_status = 1
        /\ exit_status = 0 => ScanComplete /\ (i = Len(d) \/ args.dry_run)
        /\ exit_status = 2 =>
               /\ j = MaxAttempts
               /\ Len(renames) >= MaxAttempts
               /\ IsFile(files, InitialTarget(value))
        /\ exit_status = 3 =>
               /\ writes # <<>>
               /\ writes[Len(writes)].content # writes[Len(writes)].hash

C10_Witness ==
    /\ Finished(2)
    /\ outcome = SystemExit(2)

\* the file name tests made for the record the copy loop took last
CurrentChecks == SelectSeq(checks, LAMBDA c : c.hash = source_hash)

\* the path of the entry of the global index with the digest h
InitialTargetOf(h) == InitialTarget(Get(d, h))

\* C11: the file name loop of a record makes at most 6 existence tests; it
\* goes on only after a test that found a file, it ends with a candidate at
\* which no file exists (the one handed to the copy), or with exit 2, and it
\* ends with exit 2 exactly when all 6 tested candidates exist.
C11_NameResolution ==
    LET cs == CurrentChecks
    IN  /\ Len(cs) <= 6
        /\ pc = "resolve" =>
              /\ Len(cs) < 6
              /\ \A k \in 1..Len(cs) : cs[k].exists
        /\ pc = "copy" =>
              /\ Len(cs) >= 1
              /\ ~cs[Len(cs)].exists
              /\ cs[Len(cs)].path = target_file
              /\ ~IsFile(files, target_file)
              /\ \A k \in 1..(Len(cs) - 1) : cs[k].exists
        /\ (outcome = SystemExit(2)) <=>
              (Len(cs) = 6 /\ \A k \in 1..6 : cs[k].exists)
        /\ exit_status = 2 => outcome = SystemExit(2)

C11_Witness ==
    /\ exit_status = 2
    /\ Len(CurrentChecks) = 6
    /\ \A k \in 1..6 : CurrentChecks[k].exists
    /\ \A a, b \in 1..6 : a # b => CurrentChecks[a].path # CurrentChecks[b].path

\* the copied files whose name is not the one derived from the source path
CopiedRenamed == { h \in DOMAIN copies : copies[h] # InitialTargetOf(h) }

\* C12: at the end of a run the rename record holds exactly the paths of the
\* files that were copied under a changed name, one entry for each, so the
\* reported number of renames is the number of files copied under a changed
\* name.
C12_RenamesAreCopies ==
    Finished(0) =>
        /\ Len(renames) = Cardinality(CopiedRenamed)
        /\ \A k \in 1..Len(renames) : \E h \in CopiedRenamed : renames[k] = copies[h]
        /\ \A h \in CopiedRenamed : InSeq(copies[h], renames)

\* the name loop has settled on a name other than the first one
NameChanged == pc = "copy" /\ Len(CurrentChecks) >= 2

\* p is q with the suffixes sx inserted before the extension
WithSuffixes(p, q, sx) ==
    /\ Parent(p) = Parent(q)
    /\ BaseName(p).stem = BaseName(q).stem
    /\ BaseName(p).ext = BaseName(q).ext
    /\ BaseName(p).sfx = BaseName(q).sfx \o sx

\* C13 as stated: whatever the number of retries, the resolved name is the
\* original one with a single marker-and-suffix inserted before the extension.
C13_SingleMarker ==
    NameChanged =>
        \E fix \in Fixes : WithSuffixes(target_file, InitialTarget(value), <<fix>>)

\* C13: the resolved name is the original one with one marker-and-suffix per
\* retry inserted before the extension, stem, extension and directory kept;
\* after exactly one retry it is a single marker-and-suffix.
C13_MarkerPerRetry ==
    NameChanged =>
        /\ \E sx \in [1..(Len(CurrentChecks) - 1) -> Fixes] :
               WithSuffixes(target_file, InitialTarget(value), sx)
        /\ Len(CurrentChecks) - 1 \in 1..5
        /\ Len(CurrentChecks) = 2 =>
               \E fix \in Fixes :
                   WithSuffixes(target_file, InitialTarget(value), <<fix>>)

C13_Witness ==
    /\ NameChanged
    /\ Len(CurrentChecks) >= 3
    /\ Len(BaseName(target_file).sfx) >= Len(BaseName(InitialTarget(value)).sfx) + 2

\* the folder list a hashed file was enumerated from
FolderListOf(flag) == IF flag = 0 THEN args.compare_only ELSE args.folders

\* C15: the canonical record of a digest is the first file with that content
\* in processing order, with the index and the flag of the folder it was
\* found in; the processing order is the compare-only folders in the order
\* given, then the copy-eligible folders in the order given.
C15_FirstSeenWins ==
    ScanComplete =>
        /\ \A h \in Keys(d) :
              /\ Len(Occurrences(h)) >= 1
              /\ Get(d, h) = Value(Occurrences(h)[1].file, Occurrences(h)[1].idx,
                                   Occurrences(h)[1].flag)
        /\ \A a, b \in 1..Len(seen) : a < b =>
              /\ seen[a].flag <= seen[b].flag
              /\ seen[a].flag = seen[b].flag => seen[a].idx <= seen[b].idx
        /\ \A k \in 1..Len(seen) :
              /\ seen[k].idx + 1 \in 1..Len(FolderListOf(seen[k].flag))
              /\ IsPrefix(FolderListOf(seen[k].flag)[seen[k].idx + 1], seen[k].file)

C15_Witness ==
    /\ ScanComplete
    /\ \E h \in Keys(d) :
          /\ Len(Occurrences(h)) >= 2
          /\ Occurrences(h)[1].flag = 1
          /\ \E k \in 2..Len(Occurrences(h)) :
                Occurrences(h)[k].idx # Occurrences(h)[1].idx
    /\ Cardinality(Keys(d)) >= 2

\* C17: the copy phase never writes to a path at which a file exists, and
\* every file the target held before the run is there with its content.
C17_NoOverwrite ==
    /\ \A k \in 1..Len(writes) : ~writes[k].existed
    /\ \A p \in DOMAIN fs0.files : InTarget(p) =>
          p \in DOMAIN files /\ files[p] = fs0.files[p]

\* the copy-eligible digests whose records have the initial target path of h
SharingTarget(h) == { g \in Eligible : InitialTargetOf(g) = InitialTargetOf(h) }

\* the position of the digest h in the global index
IndexOf(h) == CHOOSE k \in 1..Len(d) : d[k].hash = h

C20_DryRunReadOnly ==
    args.dry_run =>
        /\ TargetUntouched
        /\ \A p \in dirs \cup fs0.dirs : InTarget(p) => (p \in dirs /\ p \in fs0.dirs)

\* ------------------------------------------------- runs that load hashes
\* the map an earlier run with --store-hashes left in the state file of a
\* folder: the map s of lines 156-178 for the file list fs, the folder being
\* the one with index idx of that run's --folders list
RECURSIVE StoredMap(_, _, _, _)
StoredMap(fl, fs, idx, acc) ==
    IF fs = <<>> THEN acc
    ELSE StoredMap(fl, Tail(fs), idx,
                   IF IsNewContent(<<>>, acc, calc_hash(fl, Head(fs)))
                   THEN Put(acc, calc_hash(fl, Head(fs)), Value(Head(fs), idx, 1))
                   ELSE acc)

StoredIndexes == { 0, 1 }

\* the state files a folder can hold: none, or one stored by an earlier run
StateFilesOf(fl, ds, root) ==
    { <<>> } \cup
    { (root :> StoredMap(fl, q, idx, <<>>)) :
          q \in run_fast_scandir(fl, ds, root, <<>>), idx \in StoredIndexes }

InitCache ==
    \E ta \in Trees(RelPathsA), tb \in Trees(RelPathsB),
       co \in CompareLists, fo \in FolderLists, dry \in BOOLEAN, store \in BOOLEAN :
      LET fl == FunOf(TreeFiles(RootA, ta) \cup TreeFiles(RootB, tb))
          ds == {RootA, RootB, RootT} \cup DirsOf(fl)
      IN  \E sa \in StateFilesOf(fl, ds, RootA), sb \in StateFilesOf(fl, ds, RootB) :
             Start([target |-> RootT, folders |-> fo, compare_only |-> co,
                    dry_run |-> dry, exclude_extensions |-> <<>>,
                    load_hashes |-> TRUE, store_hashes |-> store],
                   fl, ds, sa @@ sb)

NextCache ==
    \/ Next
    \/ LoadCompareOnly
    \/ LoadFolder

SpecCache == InitCache /\ [][NextCache]_vars

\* C16: a digest that is in the global index keeps its record in every step
\* of a run, whether the folder-local map that is merged was built by
\* scanning or loaded from a state file.
C16_IndexNeverOverwritten ==
    [][\A h \in Keys(d) : h \in Keys(d') /\ Get(d', h) = Get(d, h)]_vars

\* C19: every copy-eligible record that reaches the copy phase, scanned or
\* loaded, has an index into the --folders list and a file below that
\* folder, so that its target path lies inside the target folder.
C19_EligibleRecordsValid ==
    ScanComplete =>
        \A h \in Eligible :
            /\ Get(d, h).idx + 1 \in 1..Len(args.folders)
            /\ IsPrefix(NormPath(args.folders[Get(d, h).idx + 1]),
                        NormPath(Get(d, h).file))
            /\ InTarget(InitialTargetOf(h))

\* ------------------------------------------- scans with excluded extensions
TmpLower == Name("a", <<>>, ".tmp")
TmpUpper == Name("a", <<>>, ".TMP")
TxtLower == Name("c", <<>>, ".txt")
SubFolder == Name("sub", <<>>, "")
ScanPaths == { <<TmpLower>>, <<TmpUpper>>, <<TxtLower>>, <<SubFolder, TmpUpper>> }

\* values of --exclude-extensions (line 44), none given is the empty list
ExcludeLists == { <<>>, <<".tmp">>, <<".TMP">>, <<".txt">>, <<".TMP", ".txt">> }

InitScan ==
    \E t \in Trees(ScanPaths), ex \in ExcludeLists :
      LET fl == FunOf(TreeFiles(RootA, t))
          ds == {RootA, RootB, RootT} \cup DirsOf(fl)
      IN  Start([target |-> RootT, folders |-> <<RootA>>, compare_only |-> <<>>,
                 dry_run |-> FALSE, exclude_extensions |-> ex,
                 load_hashes |-> FALSE, store_hashes |-> FALSE],
                fl, ds, <<>>)

\* the run up to the scan of the first folder (lines 119-210)
NextScan ==
    \/ CheckTarget
    \/ EndCompareOnly
    \/ ScanFolder

SpecScan == InitScan /\ [][NextScan]_vars

\* e is an excluded extension when letter case is disregarded on both sides
ExcludedAnyCase(e) ==
    \E k \in 1..Len(args.exclude_extensions) :
        Lower(args.exclude_extensions[k]) = Lower(e)

\* C14: a regular file under the scanned root is left out of the scan result
\* if and only if its extension is an excluded one when both are compared
\* without regard to letter case; every other regular file is in the result
\* exactly once.
C14_CaseInsensitiveExclusion ==
    pc = "fo_hash" =>
        /\ \A p \in DOMAIN files : IsPrefix(args.folders[source_folder_index + 1], p) =>
              IF ExcludedAnyCase(BaseName(p).ext)
              THEN ~InSeq(p, filelist)
              ELSE Cardinality({ k \in 1..Len(filelist) : filelist[k] = p }) = 1
        /\ \A k \in 1..Len(filelist) :
              /\ IsFile(files, filelist[k])
              /\ IsPrefix(args.folders[source_folder_index + 1], filelist[k])

====
